---- MODULE Spec2Model ----
(***************************************************************************)
(* Authentication / session-token flow of Seminari_JWT_backend:            *)
(*   utils/jwt.handle      generateToken, verifyToken,                     *)
(*                         generateRefreshToken, verifyRefreshToken        *)
(*   auth/auth_controller  loginCtrl, googleAuthCallback                   *)
(*   routes                POST /auth/refresh                              *)
(* Time is the wall clock in whole seconds, the unit jsonwebtoken uses for *)
(* iat and exp.  A token is the triple the compact JWT string carries:     *)
(* its format, its payload and its HS256 signature.                        *)
(***************************************************************************)
EXTENDS Integers, FiniteSets, Sequences, TLC

VARIABLES now, ticks, db, issuedAccess, issuedRefresh, last

vars == <<now, ticks, db, issuedAccess, issuedRefresh, last>>

(* ------------------------------ bounds --------------------------------- *)

MaxTicks == 3

MaxIssued == 2

MaxLogins == 1

(* ------------------------- program constants --------------------------- *)

AccessTTL == 3600

RefreshTTL == 604800

TokenCookieMaxAge == 86400000

RefreshCookieMaxAge == 604800000

JWT_SECRET == "token.010101010101"

ForeignSecret == "some-other-secret"

(* --------------------------- user records ------------------------------ *)

UserIds == {"u1", "u2"}

EmailOf(id) == IF id = "u1" THEN "a@x.com" ELSE "b@x.com"

PasswordOf(id) == IF id = "u1" THEN "p" ELSE "q"

UserRecord(id) == [id |-> id, email |-> EmailOf(id), password |-> PasswordOf(id)]

NoUser == [none |-> TRUE]

findById(store, id) ==
    IF \E u \in store : u.id = id
    THEN CHOOSE u \in store : u.id = id
    ELSE NoUser

findByEmail(store, email) ==
    IF \E u \in store : u.email = email
    THEN CHOOSE u \in store : u.email = email
    ELSE NoUser

(* ------------------------------ tokens --------------------------------- *)

NoTok == [fmt |-> "none"]

EmptyString == [fmt |-> "empty"]

Malformed == [fmt |-> "junk"]

HS256(payload, secret) == [key |-> secret, data |-> payload]

\* jsonwebtoken sign: adds iat = now and exp = iat + expiresIn to the payload,
\* then signs header.payload with the secret.
sign(payload, secret, expiresIn, t) ==
    LET p == IF "email" \in DOMAIN payload
             THEN [id |-> payload.id, email |-> payload.email,
                   iat |-> t, exp |-> t + expiresIn]
             ELSE [id |-> payload.id, iat |-> t, exp |-> t + expiresIn]
    IN  [fmt |-> "jwt", payload |-> p, sig |-> HS256(p, secret)]

Thrown(name) == [kind |-> "throw", name |-> name]

Null == [kind |-> "null"]

\* jsonwebtoken verify: decode, check the signature, then the expiry
\* (expired when clockTimestamp >= exp); returns the payload or throws.
verify(tok, secret, t) ==
    IF tok.fmt # "jwt" THEN Thrown("JsonWebTokenError")
    ELSE IF tok.sig # HS256(tok.payload, secret) THEN Thrown("JsonWebTokenError")
    ELSE IF t >= tok.payload.exp THEN Thrown("TokenExpiredError")
    ELSE [kind |-> "payload", payload |-> tok.payload]

\* generateToken signing with a clock read once at start-up.
generateToken_FixedClock(id, email, t) ==
    sign([id |-> id, email |-> email], JWT_SECRET, AccessTTL, 0)

\* generateToken with the refresh token's expiresIn.
generateToken_SevenDays(id, email, t) ==
    sign([id |-> id, email |-> email], JWT_SECRET, RefreshTTL, t)

generateToken(id, email, t) ==
    sign([id |-> id, email |-> email], JWT_SECRET, AccessTTL, t)

verifyToken(jwt, t) == verify(jwt, JWT_SECRET, t)

\* generateRefreshToken with expiresIn '30d'.
generateRefreshToken_ThirtyDays(id, t) ==
    sign([id |-> id], JWT_SECRET, 30 * 24 * AccessTTL, t)

generateRefreshToken(id, t) ==
    sign([id |-> id], JWT_SECRET, RefreshTTL, t)

\* verifyRefreshToken without its try/catch.
verifyRefreshToken_NoCatch(refreshToken, t) == verify(refreshToken, JWT_SECRET, t)

verifyRefreshToken(refreshToken, t) ==
    LET isOk == verify(refreshToken, JWT_SECRET, t)
    IN  IF isOk.kind = "throw" THEN Null ELSE isOk

(* ----------------------------- responses ------------------------------- *)

\* What a handler does to the response object, in order: res.cookie(...) calls
\* and the call that sends (res.json / res.redirect).
Cookie(name, value, maxAge) ==
    [type |-> "cookie", name |-> name, value |-> value, maxAge |-> maxAge]

Json(status, message, user, token, refreshToken) ==
    [type |-> "json", status |-> status, message |-> message, user |-> user,
     token |-> token, refreshToken |-> refreshToken, redirect |-> ""]

Redirect(url, token, email) ==
    [type |-> "redirect", status |-> 302, message |-> "", user |-> email,
     token |-> token, refreshToken |-> NoTok, redirect |-> url]

ErrorJson(status, message) == Json(status, message, NoUser, NoTok, NoTok)

\* The two cookies with their max-ages exchanged.
SessionCookies_MaxAgesSwapped(token, refreshToken) ==
    <<Cookie("token", token, RefreshCookieMaxAge),
      Cookie("refreshToken", refreshToken, TokenCookieMaxAge)>>

SessionCookies(token, refreshToken) ==
    <<Cookie("token", token, TokenCookieMaxAge),
      Cookie("refreshToken", refreshToken, RefreshCookieMaxAge)>>

(* --------------------------- auth service ------------------------------ *)

\* loginUser: look the user up, compare the password, mint the pair.
loginUser(store, body, t, storeFails) ==
    IF storeFails THEN [tag |-> "THROW"]
    ELSE LET user == findByEmail(store, body.email)
         IN  IF user = NoUser THEN [tag |-> "NOT_FOUND_USER"]
             ELSE IF user.password # body.password THEN [tag |-> "INCORRECT_PASSWORD"]
             ELSE [tag |-> "OK", user |-> user,
                   token |-> generateToken(user.id, user.email, t),
                   refreshToken |-> generateRefreshToken(user.id, t)]

\* googleAuth: exchange the code for the provider's identity, map it to a
\* local user (created when absent), mint the pair.
googleAuth(store, exchange, t) ==
    IF exchange.tag # "IDENTITY" THEN [tag |-> exchange.tag]
    ELSE LET found == findByEmail(store, exchange.email)
             user  == IF found = NoUser
                      THEN CHOOSE u \in {UserRecord(i) : i \in UserIds} :
                               u.email = exchange.email
                      ELSE found
         IN  [tag |-> "OK", user |-> user,
              token |-> generateToken(user.id, user.email, t),
              refreshToken |-> generateRefreshToken(user.id, t)]

(* ---------------------------- controllers ------------------------------ *)

\* loginCtrl with the statuses of the two sentinel outcomes exchanged.
loginCtrl_StatusesSwapped(store, body, t, storeFails) ==
    LET responseUser == loginUser(store, body, t, storeFails)
    IN  IF responseUser.tag = "THROW"
        THEN <<ErrorJson(500, "error.message")>>
        ELSE IF responseUser.tag = "INCORRECT_PASSWORD"
        THEN <<ErrorJson(404, "Contraseña incorrecta")>>
        ELSE IF responseUser.tag = "NOT_FOUND_USER"
        THEN <<ErrorJson(403, "Usuario no encontrado")>>
        ELSE SessionCookies(responseUser.token, responseUser.refreshToken)
                \o <<Json(200, "", responseUser.user, responseUser.token,
                           responseUser.refreshToken)>>

loginCtrl(store, body, t, storeFails) ==
    LET responseUser == loginUser(store, body, t, storeFails)
    IN  IF responseUser.tag = "THROW"
        THEN <<ErrorJson(500, "error.message")>>
        ELSE IF responseUser.tag = "INCORRECT_PASSWORD"
        THEN <<ErrorJson(403, "Contraseña incorrecta")>>
        ELSE IF responseUser.tag = "NOT_FOUND_USER"
        THEN <<ErrorJson(404, "Usuario no encontrado")>>
        ELSE SessionCookies(responseUser.token, responseUser.refreshToken)
                \o <<Json(200, "", responseUser.user, responseUser.token,
                           responseUser.refreshToken)>>

\* googleAuthCallback whose catch answers like the other controllers' catch.
googleAuthCallback_JsonOnThrow(store, code, exchange, t) ==
    IF code = "" THEN <<ErrorJson(400, "Código de autorización faltante")>>
    ELSE LET authData == googleAuth(store, exchange, t)
         IN  IF authData.tag = "THROW"
             THEN <<ErrorJson(500, "error.message")>>
             ELSE IF authData.tag = "NONE"
             THEN <<Redirect("/login?error=authentication_failed", NoTok, "")>>
             ELSE SessionCookies(authData.token, authData.refreshToken)
                     \o <<Redirect("http://localhost:4200/", authData.token,
                                   authData.user.email)>>

googleAuthCallback(store, code, exchange, t) ==
    IF code = "" THEN <<ErrorJson(400, "Código de autorización faltante")>>
    ELSE LET authData == googleAuth(store, exchange, t)
         IN  IF authData.tag = "THROW"
             THEN <<Redirect("/login?error=server_error", NoTok, "")>>
             ELSE IF authData.tag = "NONE"
             THEN <<Redirect("/login?error=authentication_failed", NoTok, "")>>
             ELSE SessionCookies(authData.token, authData.refreshToken)
                     \o <<Redirect("http://localhost:4200/", authData.token,
                                   authData.user.email)>>

\* The refresh handler rotating the refresh token on use.
refreshHandler_Rotating(store, body, t, storeFails) ==
    IF "refreshToken" \notin DOMAIN body \/ body.refreshToken = EmptyString
    THEN <<ErrorJson(400, "Refresh token es requerido")>>
    ELSE LET payload == verifyRefreshToken(body.refreshToken, t)
         IN  IF payload.kind = "throw"
             THEN <<ErrorJson(500, "Error interno del servidor")>>
             ELSE IF payload.kind = "null" \/ "id" \notin DOMAIN payload.payload
             THEN <<ErrorJson(401, "Refresh token inválido o expirado")>>
             ELSE IF storeFails
             THEN <<ErrorJson(500, "Error interno del servidor")>>
             ELSE LET user == findById(store, payload.payload.id)
                  IN  IF user = NoUser
                      THEN <<ErrorJson(401, "Usuario no encontrado")>>
                      ELSE <<Json(200, "", NoUser,
                                  generateToken(user.id, user.email, t),
                                  generateRefreshToken(user.id, t))>>

\* The refresh handler without the `if (!user)` check: reading user.id of a
\* missing user throws into the catch.
refreshHandler_NoUserCheck(store, body, t, storeFails) ==
    IF "refreshToken" \notin DOMAIN body \/ body.refreshToken = EmptyString
    THEN <<ErrorJson(400, "Refresh token es requerido")>>
    ELSE LET payload == verifyRefreshToken(body.refreshToken, t)
         IN  IF payload.kind = "throw"
             THEN <<ErrorJson(500, "Error interno del servidor")>>
             ELSE IF payload.kind = "null" \/ "id" \notin DOMAIN payload.payload
             THEN <<ErrorJson(401, "Refresh token inválido o expirado")>>
             ELSE IF storeFails
             THEN <<ErrorJson(500, "Error interno del servidor")>>
             ELSE LET user == findById(store, payload.payload.id)
                  IN  IF user = NoUser
                      THEN <<ErrorJson(500, "Error interno del servidor")>>
                      ELSE <<Json(200, "", NoUser,
                                  generateToken(user.id, user.email, t), NoTok)>>

\* POST /auth/refresh
refreshHandler(store, body, t, storeFails) ==
    IF "refreshToken" \notin DOMAIN body \/ body.refreshToken = EmptyString
    THEN <<ErrorJson(400, "Refresh token es requerido")>>
    ELSE LET payload == verifyRefreshToken(body.refreshToken, t)
         IN  IF payload.kind = "throw"
             THEN <<ErrorJson(500, "Error interno del servidor")>>
             ELSE IF payload.kind = "null" \/ "id" \notin DOMAIN payload.payload
             THEN <<ErrorJson(401, "Refresh token inválido o expirado")>>
             ELSE IF storeFails
             THEN <<ErrorJson(500, "Error interno del servidor")>>
             ELSE LET user == findById(store, payload.payload.id)
                  IN  IF user = NoUser
                      THEN <<ErrorJson(401, "Usuario no encontrado")>>
                      ELSE <<Json(200, "", NoUser,
                                  generateToken(user.id, user.email, t), NoTok)>>

(* ------------------------------- inputs -------------------------------- *)

Emails == {EmailOf(i) : i \in UserIds} \cup {"nobody@x.com"}

Passwords == {PasswordOf(i) : i \in UserIds}

LoginBodies == [email : Emails, password : Passwords]

Exchanges == {[tag |-> "THROW"], [tag |-> "NONE"]}
                 \cup {[tag |-> "IDENTITY", email |-> EmailOf(i)] : i \in UserIds}

LoginInputs ==
    [body : LoginBodies, storeFails : {FALSE}]
        \cup [body : {[email |-> EmailOf("u1"), password |-> PasswordOf("u1")]},
              storeFails : {TRUE}]

GoogleInputs ==
    [code : {""}, exchange : {[tag |-> "NONE"]}] \cup [code : {"4/0Ab"}, exchange : Exchanges]

AccessTokens == {r.tok : r \in issuedAccess}

RefreshTokens == {r.tok : r \in issuedRefresh}

Tampered(tok) == [tok EXCEPT !.payload.exp = @ + RefreshTTL]

Forged == {sign([id |-> "u1"], ForeignSecret, RefreshTTL, now)}

Presentable ==
    {EmptyString, Malformed} \cup Forged \cup AccessTokens \cup RefreshTokens
        \cup {Tampered(tok) : tok \in RefreshTokens}

RefreshBodies == {[other |-> TRUE]} \cup {[refreshToken |-> tok] : tok \in Presentable}

TickSteps == {1, AccessTTL - 1, RefreshTTL - 1}

(* ------------------------------- state --------------------------------- *)

AccessIssue(user, tok, t) == [tok |-> tok, id |-> user.id, email |-> user.email, at |-> t]

RefreshIssue(user, tok, t) == [tok |-> tok, id |-> user.id, at |-> t]

\* No request is being handled.
Idle == [op |-> "idle"]

Init ==
    /\ now = 0
    /\ ticks = 0
    /\ db = {}
    /\ issuedAccess = {}
    /\ issuedRefresh = {}
    /\ last = Idle

Tick(d) ==
    /\ last = Idle
    /\ ticks < MaxTicks
    /\ now' = now + d
    /\ ticks' = ticks + 1
    /\ UNCHANGED <<db, issuedAccess, issuedRefresh, last>>

\* POST /auth/register: the user record is stored.
Register(id) ==
    /\ last = Idle
    /\ UserRecord(id) \notin db
    /\ db' = db \cup {UserRecord(id)}
    /\ last' = [op |-> "register", req |-> id]
    /\ UNCHANGED <<now, ticks, issuedAccess, issuedRefresh>>

\* The user record is removed from the store.
DeleteUser(id) ==
    /\ last = Idle
    /\ UserRecord(id) \in db
    /\ db' = db \ {UserRecord(id)}
    /\ last' = [op |-> "delete", req |-> id]
    /\ UNCHANGED <<now, ticks, issuedAccess, issuedRefresh>>

\* The call that sent the response, and the cookies set on it.
Sends(sent) == SelectSeq(sent, LAMBDA e : e.type # "cookie")

Res(sent) == Sends(sent)[1]

CookieValue(sent, name) ==
    IF \E i \in 1..Len(sent) : sent[i].type = "cookie" /\ sent[i].name = name
    THEN sent[CHOOSE i \in 1..Len(sent) : sent[i].type = "cookie" /\ sent[i].name = name].value
    ELSE NoTok

\* POST /auth/login
Login(body, storeFails) ==
    LET sent == loginCtrl(db, body, now, storeFails)
        res  == Res(sent)
        user == findByEmail(db, body.email)
    IN  /\ last = Idle
        /\ last' = [op |-> "login", req |-> body, storeFails |-> storeFails,
                    sent |-> sent]
        /\ issuedAccess' = IF res.token # NoTok
                           THEN issuedAccess \cup {AccessIssue(user, res.token, now)}
                           ELSE issuedAccess
        /\ issuedRefresh' = IF res.refreshToken # NoTok
                            THEN issuedRefresh \cup {RefreshIssue(user, res.refreshToken, now)}
                            ELSE issuedRefresh
        /\ Cardinality(issuedRefresh') <= MaxLogins
        /\ Cardinality(issuedAccess') <= MaxIssued
        /\ UNCHANGED <<now, ticks, db>>

\* GET /auth/google/callback
GoogleCallback(code, exchange) ==
    LET sent == googleAuthCallback(db, code, exchange, now)
        res  == Res(sent)
        user == CHOOSE u \in {UserRecord(i) : i \in UserIds} : u.email = exchange.email
        refreshToken == CookieValue(sent, "refreshToken")
    IN  /\ last = Idle
        /\ last' = [op |-> "google", req |-> [code |-> code, exchange |-> exchange],
                    sent |-> sent]
        /\ db' = IF res.token # NoTok THEN db \cup {user} ELSE db
        /\ issuedAccess' = IF res.token # NoTok
                           THEN issuedAccess \cup {AccessIssue(user, res.token, now)}
                           ELSE issuedAccess
        /\ issuedRefresh' = IF refreshToken # NoTok
                            THEN issuedRefresh \cup {RefreshIssue(user, refreshToken, now)}
                            ELSE issuedRefresh
        /\ Cardinality(issuedRefresh') <= MaxLogins
        /\ Cardinality(issuedAccess') <= MaxIssued
        /\ UNCHANGED <<now, ticks>>

\* POST /auth/refresh
Refresh(body, storeFails) ==
    LET sent == refreshHandler(db, body, now, storeFails)
        res  == Res(sent)
    IN  /\ last = Idle
        /\ last' = [op |-> "refresh", req |-> body, storeFails |-> storeFails,
                    sent |-> sent]
        /\ issuedAccess' =
              IF res.token # NoTok
              THEN issuedAccess \cup
                     {AccessIssue(findById(db, body.refreshToken.payload.id), res.token, now)}
              ELSE issuedAccess
        /\ issuedRefresh' =
              IF res.refreshToken # NoTok
              THEN issuedRefresh \cup
                     {RefreshIssue(findById(db, body.refreshToken.payload.id),
                                   res.refreshToken, now)}
              ELSE issuedRefresh
        /\ Cardinality(issuedAccess') <= MaxIssued
        /\ UNCHANGED <<now, ticks, db>>

\* A bearer token is checked with verifyToken (the protected route's gate).
VerifyAccess(tok) ==
    /\ last = Idle
    /\ last' = [op |-> "verify", req |-> tok, result |-> verifyToken(tok, now)]
    /\ UNCHANGED <<now, ticks, db, issuedAccess, issuedRefresh>>

\* The response has gone out; the request is over.
Respond ==
    /\ last # Idle
    /\ last' = Idle
    /\ UNCHANGED <<now, ticks, db, issuedAccess, issuedRefresh>>

Next ==
    \/ Respond
    \/ \E d \in TickSteps : Tick(d)
    \/ \E id \in UserIds : Register(id)
    \/ \E id \in UserIds : DeleteUser(id)
    \/ \E in \in LoginInputs : Login(in.body, in.storeFails)
    \/ \E in \in GoogleInputs : GoogleCallback(in.code, in.exchange)
    \/ \E body \in RefreshBodies, storeFails \in BOOLEAN : Refresh(body, storeFails)
    \/ \E tok \in AccessTokens \cup RefreshTokens \cup {Malformed} : VerifyAccess(tok)

Spec == Init /\ [][Next]_vars

(* ------------------------------ claims --------------------------------- *)

LastRes == Res(last.sent)

LastCookies == {last.sent[i] : i \in {j \in 1..Len(last.sent) : last.sent[j].type = "cookie"}}

Handled(op) == last.op = op

\* C1: a login request gets exactly one response, whose status is fixed by the
\* authenticator outcome: 500 when the service throws, 404 when no user
\* matches, 403 with message 'Contraseña incorrecta' when the user matches and
\* the password does not, 200 when authenticated.
C1_LoginStatus ==
    Handled("login") =>
        LET user == findByEmail(db, last.req.email)
        IN  /\ Len(Sends(last.sent)) = 1
            /\ last.sent[Len(last.sent)].type # "cookie"
            /\ LastRes.status =
                  (IF last.storeFails THEN 500
                   ELSE IF user = NoUser THEN 404
                   ELSE IF user.password # last.req.password THEN 403
                   ELSE 200)
            /\ LastRes.status = 403 => LastRes.message = "Contraseña incorrecta"

C1_Witness ==
    /\ Handled("login")
    /\ findByEmail(db, last.req.email) # NoUser
    /\ findByEmail(db, last.req.email).password # last.req.password
    /\ LastRes.status = 403

\* C2: loginCtrl sets the cookies token (max-age 86400000) and refreshToken
\* (max-age 604800000) exactly when the outcome is Authenticated, their values
\* are the tokens of the response body, and no cookie is set on 403, 404, 500.
C2_LoginCookies ==
    Handled("login") =>
        LET user == findByEmail(db, last.req.email)
            authenticated == /\ ~last.storeFails
                             /\ user # NoUser
                             /\ user.password = last.req.password
        IN  /\ authenticated <=> LastCookies # {}
            /\ authenticated =>
                  /\ LastRes.token.fmt = "jwt"
                  /\ LastRes.refreshToken.fmt = "jwt"
                  /\ LastCookies =
                        {[type |-> "cookie", name |-> "token",
                          value |-> LastRes.token, maxAge |-> 86400000],
                         [type |-> "cookie", name |-> "refreshToken",
                          value |-> LastRes.refreshToken, maxAge |-> 604800000]}
            /\ LastRes.status \in {403, 404, 500} => LastCookies = {}

C2_Witness ==
    /\ Handled("login")
    /\ LastRes.status = 200
    /\ Cardinality(LastCookies) = 2

\* The refresh request carries no token.
Missing(body) == "refreshToken" \notin DOMAIN body \/ body.refreshToken = EmptyString

Expired(tok) == tok.fmt = "jwt" /\ now >= tok.payload.exp

\* The token is malformed, expired, or not signed over its payload with the
\* server's secret.
Invalid(tok) ==
    \/ tok.fmt = "junk"
    \/ tok.fmt = "jwt" /\ (tok.sig.key # JWT_SECRET \/ tok.sig.data # tok.payload)
    \/ Expired(tok)

\* C3: POST /auth/refresh answers a missing refresh token with 400, whatever
\* the store does, and a malformed, expired or foreign-signed token with 401;
\* in both cases no access token is returned and the status is never 500.
C3_RefreshRejects ==
    Handled("refresh") =>
        /\ Missing(last.req) =>
              LastRes.status = 400 /\ LastRes.token = NoTok
        /\ (~Missing(last.req) /\ Invalid(last.req.refreshToken)) =>
              LastRes.status = 401 /\ LastRes.token = NoTok

C3_Witness ==
    /\ Handled("refresh")
    /\ ~Missing(last.req)
    /\ last.req.refreshToken \in RefreshTokens
    /\ Expired(last.req.refreshToken)
    /\ last.storeFails
    /\ LastRes.status = 401

\* The refresh request presented a refresh token the server issued, still
\* unexpired.
PresentedLive ==
    /\ Handled("refresh")
    /\ ~Missing(last.req)
    /\ last.req.refreshToken \in RefreshTokens
    /\ ~Expired(last.req.refreshToken)

Subject == findById(db, last.req.refreshToken.payload.id)

\* C4 as stated: the access token a successful refresh returns differs from
\* every access token issued earlier for that user.
C4_FreshEveryTime ==
    [][(PresentedLive' /\ LastRes'.status = 200) =>
          \A r \in issuedAccess :
              r.id = LastRes'.token.payload.id => r.tok # LastRes'.token]_vars

\* C4 as amended: the access token a successful refresh returns encodes the
\* subject's id and email, differs from every access token issued for that
\* user in another second, and equals the ones issued for the same id and
\* email in the same second.
C4_FreshPerSecond ==
    [][(PresentedLive' /\ LastRes'.status = 200) =>
          /\ LastRes'.token.payload.id = last'.req.refreshToken.payload.id
          /\ LastRes'.token.payload.email = Subject'.email
          /\ \A r \in issuedAccess :
                (r.tok = LastRes'.token) <=>
                    (r.id = Subject'.id /\ r.email = Subject'.email /\ r.at = now')]_vars

C4_Witness ==
    /\ PresentedLive
    /\ LastRes.status = 200
    /\ \E r \in issuedAccess : r.id = Subject.id /\ r.at < now /\ r.tok # LastRes.token

Accepted(tok) == verifyRefreshToken(tok, now).kind = "payload"

Usable(tok) == verifyToken(tok, now).kind = "payload"

C6_RoundTrip ==
    /\ \A r \in issuedAccess :
          LET v == verifyToken(r.tok, now)
          IN  /\ now < r.at + 3600 =>
                    v.kind = "payload" /\ v.payload.id = r.id /\ v.payload.email = r.email
              /\ now > r.at + 3600 => v.kind = "throw"
    /\ \A r \in issuedRefresh :
          LET v == verifyRefreshToken(r.tok, now)
          IN  /\ now < r.at + 604800 => v.kind = "payload" /\ v.payload.id = r.id
              /\ now > r.at + 604800 => v.kind = "null"

C6_Witness ==
    /\ Handled("verify")
    /\ last.result.kind = "throw"
    /\ \E r \in issuedAccess : r.tok = last.req /\ now > r.at + 3600
    /\ \E r \in issuedRefresh : now < r.at + 604800

\* C7: a refresh with a valid, unexpired refresh token answers 500 when the
\* user lookup throws and 401 when the user is no longer in the store, and
\* returns no access token in either case.
C7_VanishedUser ==
    PresentedLive =>
        /\ last.storeFails => LastRes.status = 500 /\ LastRes.token = NoTok
        /\ (~last.storeFails /\ Subject = NoUser) =>
              LastRes.status = 401 /\ LastRes.token = NoTok

C7_Witness ==
    /\ PresentedLive
    /\ ~last.storeFails
    /\ Subject = NoUser
    /\ LastRes.status = 401

\* C8: googleAuthCallback answers a missing code with a 400; a failed exchange
\* (googleAuth returns nothing or throws) ends in a redirect to an error page
\* with no JSON body; the cookies token and refreshToken are set only on the
\* successful path, and there before the redirect to the frontend.
C8_GoogleCallback ==
    Handled("google") =>
        LET failed == last.req.exchange.tag \in {"NONE", "THROW"}
            n == Len(last.sent)
        IN  /\ Len(Sends(last.sent)) = 1
            /\ last.sent[n].type # "cookie"
            /\ last.req.code = "" =>
                  LastRes.type = "json" /\ LastRes.status = 400 /\ LastCookies = {}
            /\ (last.req.code # "" /\ failed) =>
                  /\ LastRes.type = "redirect"
                  /\ LastRes.redirect \in {"/login?error=authentication_failed",
                                           "/login?error=server_error"}
                  /\ LastCookies = {}
            /\ (last.req.code # "" /\ ~failed) =>
                  /\ LastRes.type = "redirect"
                  /\ LastRes.redirect = "http://localhost:4200/"
                  /\ {c.name : c \in LastCookies} = {"token", "refreshToken"}
                  /\ CookieValue(last.sent, "token") = LastRes.token
                  /\ CookieValue(last.sent, "refreshToken").fmt = "jwt"

C8_Witness ==
    /\ Handled("google")
    /\ last.req.code # ""
    /\ last.req.exchange.tag = "THROW"
    /\ LastRes.redirect = "/login?error=server_error"

\* C9: POST /auth/refresh returns a new access token only when the presented
\* token was minted by generateRefreshToken; an unexpired access token of
\* generateToken in the refreshToken field gets 401.
C9_OnlyRefreshTokens ==
    Handled("refresh") =>
        /\ LastRes.token # NoTok => last.req.refreshToken \in RefreshTokens
        /\ (~Missing(last.req) /\ last.req.refreshToken \in AccessTokens) =>
              LastRes.status = 401

\* C10: refreshing with the refresh token of a login at t0 succeeds only
\* before t0 + 7 days, and the access token it returns does not verify at
\* any time after t0 + 7 days + 1 hour.
C10_SessionBounded ==
    (Handled("refresh") /\ ~Missing(last.req)) =>
        \A r \in issuedRefresh :
            r.tok = last.req.refreshToken =>
                /\ now >= r.at + 604800 => LastRes.status # 200 /\ LastRes.token = NoTok
                /\ LastRes.status = 200 =>
                      /\ LastRes.token.payload.exp <= r.at + 604800 + 3600
                      /\ \A k \in 1..3 :
                            verifyToken(LastRes.token, r.at + 604800 + 3600 + k).kind = "throw"

C10_Witness ==
    /\ PresentedLive
    /\ LastRes.status = 200
    /\ \E r \in issuedRefresh :
          r.tok = last.req.refreshToken /\ now = r.at + 604800 - 1

====
